---- MODULE Spec2Model ----
(***************************************************************************)
(* a0-logstream2loki: the ingestion-to-batch pipeline.                     *)
(*                                                                         *)
(* Processes: the request handlers (LogsHandler.ServeHTTP, one goroutine   *)
(* per request), the batcher (Batcher.Run, one goroutine), main's shutdown *)
(* sequence, the runtime's flush timer and the passing of time.            *)
(*                                                                         *)
(* Strings are sequences of one-character strings, so that                 *)
(* computeLabelKey's concatenation is computed, not assumed.               *)
(*                                                                         *)
(* Time is kept relative: `elapsed` is time.Since(firstEntryTime) and      *)
(* timer.left is the time until flushTimer expires, both in clock ticks.   *)
(***************************************************************************)
EXTENDS Integers, Sequences, FiniteSets, TLC

\* ------------------------------------------------------------------ bounds

\* Capacity of entryChan (10000 in main, scaled down).
ChanCap == 2

\* cfg.BatchSize, the size threshold T (500 by default, scaled down).
BatchSize == 2

\* cfg.BatchFlush, the flush interval F, in clock ticks.
FlushTimeout == 1

\* Lines read from request bodies over a whole run, all handlers together.
MaxLines == 3

\* The request handlers in flight (one request each).  A send is one atomic
\* step on the channel, so the sends of any number of handlers reach the
\* channel as one sequence of sends.
Handlers == {1}

\* ------------------------------------------------------------------ labels

\* The label sets the parsed lines carry.  The first two differ in type and
\* environment_name and contain the '|' character; the third has no '|'.
LabelSets ==
    { [type |-> <<"a", "|", "b">>, environment_name |-> <<"c">>,
       tenant_name |-> <<"t">>],
      [type |-> <<"a">>, environment_name |-> <<"b", "|", "c">>,
       tenant_name |-> <<"t">>],
      [type |-> <<"s">>, environment_name |-> <<"c">>,
       tenant_name |-> <<"t">>] }

\* labels[k] of a Go map: the zero value "" for a missing key.
Lookup(labels, k) == IF k \in DOMAIN labels THEN labels[k] ELSE << >>

\* computeLabelKey with the type left out of the key.
computeLabelKeyNoType(labels) ==
    Lookup(labels, "service_name") \o <<"|">>
        \o <<"|">> \o Lookup(labels, "environment_name")
        \o <<"|">> \o Lookup(labels, "tenant_name")

computeLabelKey(labels) ==
    Lookup(labels, "service_name") \o <<"|">> \o Lookup(labels, "type")
        \o <<"|">> \o Lookup(labels, "environment_name")
        \o <<"|">> \o Lookup(labels, "tenant_name")

\* ------------------------------------------------------------------- lines

\* A JSON member that the object does not have (no string is this sequence:
\* the elements of a string are single characters).
Absent == << "absent" >>

\* The timestamp strings of data.date, in a two-field miniature of RFC 3339:
\* seconds, an optional fraction of one digit, and the zone "Z".
Digits == << "0", "1", "2", "3", "4", "5", "6", "7", "8", "9" >>
RFC3339Strings == { << "1", "Z" >>, << "1", ".", "5", "Z" >> }
DateStrings == RFC3339Strings \cup { << "x" >> }

\* A line of a request body.  form "empty" is the line "", "spaces" a line
\* of white space, "garbage" a text that json.Unmarshal rejects for
\* Auth0LogData, "object" a JSON object {"data": {...}} with these members.
RawLine(form, date, type, env, tenant) ==
    [form |-> form, date |-> date, type |-> type, environment_name |-> env,
     tenant_name |-> tenant]

NonObject(form) == RawLine(form, Absent, Absent, Absent, Absent)

RawLines ==
    { NonObject(f) : f \in {"empty", "spaces", "garbage"} }
        \cup { RawLine("object", d, t, e, n) :
                 d \in DateStrings \cup {Absent},
                 t \in { << "a" >>, << "a", "|", "b" >>, Absent },
                 e \in { << "c" >>, << "b", "|", "c" >>, Absent },
                 n \in { << "t" >>, Absent } }

\* The lines of the request bodies of a run of the whole pipeline: an empty
\* line, a line that does not parse, and one valid line per label set.
Lines ==
    { NonObject("empty"), NonObject("garbage") }
        \cup { RawLine("object", << "1", "Z" >>, l.type, l.environment_name,
                       l.tenant_name) : l \in LabelSets }

\* strings.TrimSpace(line) == "" with the trimming left out.
IsBlankNoTrim(line) == line.form = "empty"

\* strings.TrimSpace(line) == ""
IsBlank(line) == line.form \in {"empty", "spaces"}

\* json.Unmarshal into Auth0LogData: an error for a text that is no JSON of
\* that shape, else the struct, a member the object lacks left at "".
Member(v) == IF v = Absent THEN << >> ELSE v

jsonUnmarshal(line) ==
    IF line.form # "object"
      THEN [err |-> TRUE, Date |-> << >>, Type |-> << >>,
            EnvironmentName |-> << >>, TenantName |-> << >>]
      ELSE [err |-> FALSE, Date |-> Member(line.date),
            Type |-> Member(line.type),
            EnvironmentName |-> Member(line.environment_name),
            TenantName |-> Member(line.tenant_name)]

DigitValue(c) == (CHOOSE i \in 1..10 : Digits[i] = c) - 1
IsDigit(c) == \E i \in 1..10 : Digits[i] = c

\* time.Parse(time.RFC3339Nano, s) followed by UnixNano(), in tenths of a
\* second: the fraction is optional, anything else is an error.
timeParse(s) ==
    IF Len(s) = 2 /\ IsDigit(s[1]) /\ s[2] = "Z"
      THEN [err |-> FALSE, UnixNano |-> 10 * DigitValue(s[1])]
    ELSE IF Len(s) = 4 /\ IsDigit(s[1]) /\ s[2] = "." /\ IsDigit(s[3])
                       /\ s[4] = "Z"
      THEN [err |-> FALSE,
            UnixNano |-> 10 * DigitValue(s[1]) + DigitValue(s[3])]
    ELSE [err |-> TRUE, UnixNano |-> 0]

\* The LogEntry parseLogLine builds.  No is not in the program: it is the
\* number of the scan that read the line and tells equal lines apart.
\* This variant reads the labels in another order of the members.
LogEntrySwapped(n, line, logData, timestamp) ==
    [No |-> n, Timestamp |-> timestamp,
     Labels |-> [type |-> logData.EnvironmentName,
                 environment_name |-> logData.Type,
                 tenant_name |-> logData.TenantName],
     Line |-> line]

LogEntry(n, line, logData, timestamp) ==
    [No |-> n, Timestamp |-> timestamp,
     Labels |-> [type |-> logData.Type,
                 environment_name |-> logData.EnvironmentName,
                 tenant_name |-> logData.TenantName],
     Line |-> line]

NoEntry == [No |-> 0, Timestamp |-> 0, Labels |-> << >>,
            Line |-> NonObject("empty")]

\* parseLogLine(line): the entry, or the error of the decoding or of the
\* timestamp.  Nothing looks at whether type, environment_name and
\* tenant_name are there.
parseLogLine(n, line) ==
    LET logData == jsonUnmarshal(line)
        t == timeParse(logData.Date)
    IN  IF logData.err THEN [err |-> "json", entry |-> NoEntry]
        ELSE IF t.err THEN [err |-> "timestamp", entry |-> NoEntry]
        ELSE [err |-> "none", entry |-> LogEntry(n, line, logData, t.UnixNano)]

\* -------------------------------------------------------------------- sink

\* strconv.FormatInt(i, 10)
RECURSIVE FormatNat(_)
FormatNat(n) ==
    IF n < 10 THEN << Digits[n + 1] >>
    ELSE FormatNat(n \div 10) \o << Digits[(n % 10) + 1] >>

FormatInt(i) == IF i < 0 THEN << "-" >> \o FormatNat(0 - i) ELSE FormatNat(i)

\* The orders in which a range over a Go map with these keys can visit them.
MapOrders(keys) ==
    { o \in [1..Cardinality(keys) -> keys] :
        \A i, j \in DOMAIN o : i # j => o[i] # o[j] }

RECURSIVE SelectStreams(_, _)
SelectStreams(b, order) ==
    IF order = << >> THEN << >>
    ELSE LET batch == b[Head(order)]
             rest == SelectStreams(b, Tail(order))
         IN  IF batch.Entries = << >> THEN rest
             ELSE << [Stream |-> batch.Labels,
                      Values |-> [i \in 1..Len(batch.Entries) |->
                                    << FormatInt(batch.Entries[i].Timestamp),
                                       batch.Entries[i].Line >>]] >> \o rest

\* buildPushRequest with the values of each stream in the reverse of the
\* batch's order.
buildPushRequestReversed(b, order) ==
    [Streams |->
        [n \in 1..Len(order) |->
            LET entries == b[order[n]].Entries
            IN  [Stream |-> b[order[n]].Labels,
                 Values |-> [i \in 1..Len(entries) |->
                    << FormatInt(entries[Len(entries) + 1 - i].Timestamp),
                       entries[Len(entries) + 1 - i].Line >>]]]]

\* buildPushRequest(batches), the range over the map visiting the keys in
\* this order: one stream per batch that has entries.
buildPushRequest(b, order) == [Streams |-> SelectStreams(b, order)]

\* ---------------------------------------------------------------- requests

\* HMAC-SHA256 of msg under secret, as a tagged pair: MACs are equal only
\* for equal secrets and messages.
hmacSHA256(secret, msg) == << "#" >> \o secret \o << ":" >> \o msg

\* hex.EncodeToString and hex.DecodeString: the hexadecimal strings are the
\* ones that begin with the mark "x".
hexEncode(bytes) == << "x" >> \o bytes
hexDecodeString(token) ==
    IF token # << >> /\ token[1] = "x"
      THEN [err |-> FALSE, bytes |-> Tail(token)]
      ELSE [err |-> TRUE, bytes |-> << >>]

\* The bearer tokens of the requests: a static token, the HMAC token of
\* tenant "t" under secret "k", and a text that is neither.
Tokens == { << "c" >>, hexEncode(hmacSHA256(<< "k" >>, << "t" >>)), << "z" >> }

\* A request as ServeHTTP meets it: the method, what isLocalIP and
\* isIPAllowed say of the client's address, the tenant parameter, the
\* Authorization header ("none": not sent, "malformed": not "Bearer <token>",
\* "bearer": "Bearer " and the token), and the handler's verboseLogging,
\* allowLocalIPs, customAuthToken and hmacSecret.
AllRequests ==
    [method : {"POST", "GET"}, isLocal : BOOLEAN, isAllowed : BOOLEAN,
     verboseLogging : BOOLEAN, allowLocalIPs : BOOLEAN,
     tenant : { << >>, << "t" >> },
     authorization : {"none", "malformed", "bearer"}, token : Tokens,
     customAuthToken : { << >>, << "c" >> },
     hmacSecret : { << >>, << "k" >> }]

\* The requests of a run of the whole pipeline: one that is served, and one
\* for each way of being turned away (405, 403, 400, 401).
GoodRequest ==
    [method |-> "POST", isLocal |-> FALSE, isAllowed |-> TRUE,
     verboseLogging |-> FALSE, allowLocalIPs |-> FALSE, tenant |-> << "t" >>,
     authorization |-> "bearer",
     token |-> hexEncode(hmacSHA256(<< "k" >>, << "t" >>)),
     customAuthToken |-> << >>, hmacSecret |-> << "k" >>]

Requests ==
    { GoodRequest,
      [GoodRequest EXCEPT !.method = "GET"],
      [GoodRequest EXCEPT !.isAllowed = FALSE],
      [GoodRequest EXCEPT !.tenant = << >>],
      [GoodRequest EXCEPT !.token = << "z" >>] }

\* authenticateRequest with the custom token as one more way in: a token
\* that passes the HMAC validation is accepted as well.
authenticateRequestEither(r) ==
    IF r.tenant = << >> THEN 400
    ELSE IF r.authorization = "none" THEN 401
    ELSE IF r.authorization = "malformed" THEN 401
    ELSE IF r.customAuthToken # << >> /\ r.token = r.customAuthToken THEN 200
    ELSE IF r.hmacSecret = << >> THEN 401
    ELSE IF hexDecodeString(r.token).err THEN 401
    ELSE IF hmacSHA256(r.hmacSecret, r.tenant)
               # hexDecodeString(r.token).bytes THEN 401
    ELSE 200

\* authenticateRequest: the status it writes, 200 standing for ok = true.
authenticateRequest(r) ==
    IF r.tenant = << >> THEN 400
    ELSE IF r.authorization = "none" THEN 401
    ELSE IF r.authorization = "malformed" THEN 401
    ELSE IF r.customAuthToken # << >>
      THEN (IF r.token # r.customAuthToken THEN 401 ELSE 200)
    ELSE IF r.hmacSecret = << >> THEN 401
    ELSE IF hexDecodeString(r.token).err THEN 401
    ELSE IF hmacSHA256(r.hmacSecret, r.tenant)
               # hexDecodeString(r.token).bytes THEN 401
    ELSE 200

\* if !h.verboseLogging { if !isAllowed && !(isLocal && h.allowLocalIPs) ...
ipRejected(r) ==
    ~r.verboseLogging /\ ~r.isAllowed /\ ~(r.isLocal /\ r.allowLocalIPs)

\* Gate with the call of authenticateRequest left out.
GateNoAuth(r) ==
    IF r.method # "POST" THEN 405
    ELSE IF ipRejected(r) THEN 403
    ELSE 200

\* ServeHTTP before the body loop: the status of the rejection, 200 if the
\* request goes on to the body.
Gate(r) ==
    IF r.method # "POST" THEN 405
    ELSE IF ipRejected(r) THEN 403
    ELSE authenticateRequest(r)

\* ----------------------------------------------------------- configuration

\* The defaults of the flags batch-size and batch-flush-ms.
DefaultBatchSize == 500
DefaultBatchFlush == 200

\* A flag of the command line: whether it was given, and the value the flag
\* package holds for it (the flag's default when it was not given).
Flag(given, value) == [given |-> given, value |-> value]

StringFlags(values) ==
    { Flag(FALSE, << >>) } \cup { Flag(TRUE, v) : v \in values }
IntFlags(default, values) ==
    { Flag(FALSE, default) } \cup { Flag(TRUE, v) : v \in values }
BoolFlags == { Flag(FALSE, FALSE), Flag(TRUE, TRUE), Flag(TRUE, FALSE) }

\* The command lines and the environments LoadConfig is run on.  An
\* environment variable that is not set reads as "".
Args ==
    [lokiURL : StringFlags({ << >>, << "f" >> }),
     hmacSecret : StringFlags({ << "k" >> }),
     batchSize : IntFlags(DefaultBatchSize, { DefaultBatchSize, 2, 0 }),
     batchFlush : IntFlags(DefaultBatchFlush, { DefaultBatchFlush, 1 }),
     verbose : BoolFlags]

Environs ==
    [LOKI_URL : { << >>, << "e" >> },
     HMAC_SECRET : { << >>, << "h" >> },
     CUSTOM_AUTH_TOKEN : { << >>, << "c" >> },
     BATCH_SIZE : { << >>, << "3" >>, << "0" >>, << "-", "1" >>, << "x" >> },
     BATCH_FLUSH_MS : { << >>, << "7" >>, << "0" >> },
     VERBOSE_LOGGING : { << >>, << "t", "r", "u", "e" >> }]

\* getEnv(key, defaultValue)
getEnv(value, defaultValue) == IF value # << >> THEN value ELSE defaultValue

\* The number the leading digits of s spell, after the digits read so far
\* gave acc.
RECURSIVE ScanDigits(_, _)
ScanDigits(s, acc) ==
    IF s = << >> \/ ~IsDigit(s[1]) THEN acc
    ELSE ScanDigits(Tail(s), 10 * acc + DigitValue(s[1]))

\* fmt.Sscanf(value, "%d", &intVal): an optional sign and the digits that
\* follow it; an error when no digit follows.
Sscanf(s) ==
    LET signed == s # << >> /\ s[1] \in {"-", "+"}
        body == IF signed THEN Tail(s) ELSE s
        n == ScanDigits(body, 0)
    IN  IF body = << >> \/ ~IsDigit(body[1])
          THEN [err |-> TRUE, intVal |-> 0]
          ELSE [err |-> FALSE,
                intVal |-> IF signed /\ s[1] = "-" THEN 0 - n ELSE n]

\* getEnvInt(key, defaultValue)
getEnvInt(value, defaultValue) ==
    IF value # << >> /\ ~Sscanf(value).err THEN Sscanf(value).intVal
    ELSE defaultValue

\* getEnvBool(key, defaultValue)
getEnvBool(value, defaultValue) ==
    IF value \in { << "t", "r", "u", "e" >>, << "1" >>, << "y", "e", "s" >>,
                   << "o", "n" >> } THEN TRUE
    ELSE IF value \in { << "f", "a", "l", "s", "e" >>, << "0" >>,
                        << "n", "o" >>, << "o", "f", "f" >> } THEN FALSE
    ELSE defaultValue

\* LoadConfig: the environment first, then the flags "if provided", then
\* the validation of what is required.
LoadConfig(args, environ) ==
    LET fromEnv ==
            [LokiURL |-> getEnv(environ.LOKI_URL, << >>),
             HMACSecret |-> getEnv(environ.HMAC_SECRET, << >>),
             CustomAuthToken |-> getEnv(environ.CUSTOM_AUTH_TOKEN, << >>),
             BatchSize |-> getEnvInt(environ.BATCH_SIZE, DefaultBatchSize),
             BatchFlush |-> getEnvInt(environ.BATCH_FLUSH_MS,
                                      DefaultBatchFlush),
             VerboseLogging |-> getEnvBool(environ.VERBOSE_LOGGING, FALSE)]
        cfg ==
            [LokiURL |-> IF args.lokiURL.value # << >>
                           THEN args.lokiURL.value ELSE fromEnv.LokiURL,
             HMACSecret |-> IF args.hmacSecret.value # << >>
                              THEN args.hmacSecret.value
                              ELSE fromEnv.HMACSecret,
             CustomAuthToken |-> fromEnv.CustomAuthToken,
             BatchSize |-> IF args.batchSize.value # DefaultBatchSize
                             THEN args.batchSize.value
                             ELSE fromEnv.BatchSize,
             BatchFlush |-> IF args.batchFlush.value # DefaultBatchFlush
                              THEN args.batchFlush.value
                              ELSE fromEnv.BatchFlush,
             VerboseLogging |-> IF args.verbose.value
                                  THEN TRUE ELSE fromEnv.VerboseLogging]
    IN  [err |-> \/ cfg.LokiURL = << >>
                 \/ (cfg.HMACSecret = << >> /\ cfg.CustomAuthToken = << >>),
         cfg |-> cfg]

\* ------------------------------------------------------------------- state

VARIABLES
    env,          \* the run's surroundings: configuration, inputs, the sink
    entryChan,    \* the buffered channel's content, oldest first
    closed,       \* close(entryChan) has run
    ctxDone,      \* cancel() has run: b.ctx.Done() is ready
    mpc,          \* main: serving, shutdown, close, cancel, wait, done
    shutdownErr,  \* main: server.Shutdown returned an error
    hpc,          \* handler: idle, scan, send, done, panic
    pending,      \* handler: the entry parsed from the current line
    lineCount,    \* handler: lineCount
    errorCount,   \* handler: errorCount
    status,       \* handler: the HTTP status written (0: none yet)
    scanned,      \* lines read so far, all handlers together
    bpc,          \* batcher: select, pushing, done
    batches,      \* batcher: label key -> Batch
    totalEntries, \* batcher: totalEntries
    elapsed,      \* batcher: time.Since(firstEntryTime), capped
    flushFrom,    \* batcher: the call site of the flush in progress
    timer,        \* flushTimer: armed, time left, value waiting in C
    pushes,       \* history: the Push calls made, in order
    cycle,        \* history: entries dequeued since the last flush call
    enqueued,     \* history: entries the channel accepted, in order
    dequeued      \* history: entries the batcher received, in order

vars == << env, entryChan, closed, ctxDone, mpc, shutdownErr, hpc, pending, lineCount,
           errorCount, status, scanned, bpc, batches, totalEntries, elapsed,
           flushFrom, timer, pushes, cycle, enqueued, dequeued >>

chanVars == << entryChan, closed, enqueued >>
mainVars == << ctxDone, mpc, shutdownErr >>
handlerVars == << hpc, pending, lineCount, errorCount, status, scanned >>
batcherVars == << bpc, batches, totalEntries, elapsed, flushFrom, pushes,
                  cycle, dequeued >>

EmptyBatches == [k \in {} |-> NoEntry]

\* time.NewTimer(d) and flushTimer.Reset(d): armed, to expire after d.
NewTimer(d) == [armed |-> TRUE, left |-> d, tick |-> FALSE]

\* The surroundings of a run of the whole pipeline: cfg.BatchSize, the
\* capacity of the entry channel, the lines and the requests the handlers
\* may be given, and what Push may return.
Env == [batchSize |-> BatchSize, chanCap |-> ChanCap, lines |-> Lines,
        requests |-> Requests, sink |-> {"ok", "error"}]

\* The state with main at pc: "start" is the entry of main, "serving" the
\* state after construction, with the server listening.
InitAt(e, pc) ==
    /\ env = e
    /\ entryChan = << >>
    /\ closed = FALSE
    /\ ctxDone = FALSE
    /\ mpc = pc
    /\ shutdownErr = FALSE
    /\ hpc = [h \in Handlers |-> "idle"]
    /\ pending = [h \in Handlers |-> NoEntry]
    /\ lineCount = [h \in Handlers |-> 0]
    /\ errorCount = [h \in Handlers |-> 0]
    /\ status = [h \in Handlers |-> 0]
    /\ scanned = 0
    /\ bpc = "select"
    /\ batches = EmptyBatches
    /\ totalEntries = 0
    /\ elapsed = 0
    /\ flushFrom = "none"
    /\ timer = NewTimer(FlushTimeout)
    /\ pushes = << >>
    /\ cycle = << >>
    /\ enqueued = << >>
    /\ dequeued = << >>

InitWith(e) == InitAt(e, "serving")

Init == InitWith(Env)

\* ---------------------------------------------------------------- handlers

\* ServeHTTP up to the body loop: the method check, the IP allowlist check
\* and authenticateRequest; a rejection writes its status and returns.
HandlerStart(h) ==
    /\ mpc = "serving"
    /\ hpc[h] = "idle"
    /\ \E r \in env.requests :
          IF Gate(r) # 200
            THEN /\ hpc' = [hpc EXCEPT ![h] = "done"]
                 /\ status' = [status EXCEPT ![h] = Gate(r)]
            ELSE /\ hpc' = [hpc EXCEPT ![h] = "scan"]
                 /\ status' = status
    /\ UNCHANGED << pending, lineCount, errorCount, scanned >>
    /\ UNCHANGED << env, chanVars, mainVars, batcherVars, timer >>

\* HandlerScan that ends the request with 400 at a line that fails to parse.
HandlerScanAbort(h) ==
    /\ mpc # "done"
    /\ hpc[h] = "scan"
    /\ scanned < MaxLines
    /\ scanned' = scanned + 1
    /\ \E line \in env.lines :
          LET parsed == parseLogLine(scanned + 1, line)
          IN  IF IsBlank(line)
                THEN UNCHANGED << hpc, pending, lineCount, errorCount,
                                  status >>
              ELSE IF parsed.err # "none"
                THEN /\ lineCount' = [lineCount EXCEPT ![h] = @ + 1]
                     /\ errorCount' = [errorCount EXCEPT ![h] = @ + 1]
                     /\ hpc' = [hpc EXCEPT ![h] = "done"]
                     /\ status' = [status EXCEPT ![h] = 400]
                     /\ UNCHANGED pending
              ELSE /\ lineCount' = [lineCount EXCEPT ![h] = @ + 1]
                   /\ pending' = [pending EXCEPT ![h] = parsed.entry]
                   /\ hpc' = [hpc EXCEPT ![h] = "send"]
                   /\ UNCHANGED << errorCount, status >>
    /\ UNCHANGED << env, chanVars, mainVars, batcherVars, timer >>

\* One turn of the body loop up to the send: scanner.Scan() returns a line;
\* an empty line is skipped, a line that fails to parse is counted and
\* skipped, a parsed line goes on to the send.
HandlerScan(h) ==
    /\ mpc # "done"
    /\ hpc[h] = "scan"
    /\ scanned < MaxLines
    /\ scanned' = scanned + 1
    /\ \E line \in env.lines :
          LET parsed == parseLogLine(scanned + 1, line)
          IN  IF IsBlank(line)
                THEN UNCHANGED << hpc, pending, lineCount, errorCount >>
              ELSE IF parsed.err # "none"
                THEN /\ lineCount' = [lineCount EXCEPT ![h] = @ + 1]
                     /\ errorCount' = [errorCount EXCEPT ![h] = @ + 1]
                     /\ UNCHANGED << hpc, pending >>
              ELSE /\ lineCount' = [lineCount EXCEPT ![h] = @ + 1]
                   /\ pending' = [pending EXCEPT ![h] = parsed.entry]
                   /\ hpc' = [hpc EXCEPT ![h] = "send"]
                   /\ UNCHANGED errorCount
    /\ UNCHANGED status
    /\ UNCHANGED << env, chanVars, mainVars, batcherVars, timer >>

\* select { case h.entryChan <- entry: default: errorCount++ }.
\* A send on a closed channel panics, with or without a default case; the
\* server recovers the panic and drops the connection.
HandlerSend(h) ==
    /\ mpc # "done"
    /\ hpc[h] = "send"
    /\ IF closed
         THEN /\ hpc' = [hpc EXCEPT ![h] = "panic"]
              /\ UNCHANGED << entryChan, enqueued, errorCount >>
       ELSE IF Len(entryChan) < env.chanCap
         THEN /\ entryChan' = Append(entryChan, pending[h])
              /\ enqueued' = Append(enqueued, pending[h])
              /\ hpc' = [hpc EXCEPT ![h] = "scan"]
              /\ UNCHANGED errorCount
       ELSE /\ errorCount' = [errorCount EXCEPT ![h] = @ + 1]
            /\ hpc' = [hpc EXCEPT ![h] = "scan"]
            /\ UNCHANGED << entryChan, enqueued >>
    /\ pending' = [pending EXCEPT ![h] = NoEntry]
    /\ UNCHANGED << closed, lineCount, status, scanned >>
    /\ UNCHANGED << env, mainVars, batcherVars, timer >>

\* HandlerFinish that takes back what the request put into the channel when
\* the body cannot be read to its end.
HandlerFinishRollback(h) ==
    /\ mpc # "done"
    /\ hpc[h] = "scan"
    /\ \E readErr \in BOOLEAN :
          /\ status' = [status EXCEPT ![h] = IF readErr THEN 400 ELSE 202]
          /\ entryChan' = IF readErr THEN << >> ELSE entryChan
    /\ hpc' = [hpc EXCEPT ![h] = "done"]
    /\ UNCHANGED << pending, lineCount, errorCount, scanned >>
    /\ UNCHANGED << env, closed, enqueued, mainVars, batcherVars, timer >>

\* scanner.Scan() returns false: a read error answers 400, the end of the
\* body answers 202.
HandlerFinish(h) ==
    /\ mpc # "done"
    /\ hpc[h] = "scan"
    /\ \E readErr \in BOOLEAN :
          status' = [status EXCEPT ![h] = IF readErr THEN 400 ELSE 202]
    /\ hpc' = [hpc EXCEPT ![h] = "done"]
    /\ UNCHANGED << pending, lineCount, errorCount, scanned >>
    /\ UNCHANGED << env, chanVars, mainVars, batcherVars, timer >>

\* -------------------------------------------------------------------- main

\* cfg, err := LoadConfig(); on an error main exits, else the batcher is
\* built with cfg.BatchSize and the server starts.
MainLoadConfig ==
    /\ mpc = "start"
    /\ LET loaded == LoadConfig(env.args, env.environ)
       IN  IF loaded.err
             THEN /\ mpc' = "exit"
                  /\ env' = env
             ELSE /\ mpc' = "serving"
                  /\ env' = [env EXCEPT !.cfg = loaded.cfg,
                                        !.batchSize = loaded.cfg.BatchSize]
    /\ UNCHANGED << ctxDone, shutdownErr, chanVars, handlerVars, batcherVars,
                    timer >>

\* sig := <-sigChan, then server.Shutdown begins: no new request is served.
MainSignal ==
    /\ mpc = "serving"
    /\ mpc' = "shutdown"
    /\ UNCHANGED << env, ctxDone, shutdownErr, chanVars, handlerVars, batcherVars, timer >>

\* A handler that is still inside ServeHTTP.
Active(h) == hpc[h] \in {"scan", "send"}

\* server.Shutdown(shutdownCtx) returns nil: every connection is idle.
ServerShutdownIdle ==
    /\ mpc = "shutdown"
    /\ \A h \in Handlers : ~Active(h)
    /\ mpc' = "close"
    /\ UNCHANGED << env, ctxDone, shutdownErr, chanVars, handlerVars, batcherVars, timer >>

\* server.Shutdown(shutdownCtx) returns the context's error: the 30 s
\* deadline expired with a handler still running.  main logs the error and
\* goes on.
ServerShutdownDeadline ==
    /\ mpc = "shutdown"
    /\ \E h \in Handlers : Active(h)
    /\ mpc' = "close"
    /\ shutdownErr' = TRUE
    /\ UNCHANGED << env, ctxDone, chanVars, handlerVars, batcherVars, timer >>

\* close(entryChan)
MainClose ==
    /\ mpc = "close"
    /\ closed' = TRUE
    /\ mpc' = "cancel"
    /\ UNCHANGED << env, ctxDone, shutdownErr, entryChan, enqueued, handlerVars, batcherVars,
                    timer >>

\* cancel()
MainCancel ==
    /\ mpc = "cancel"
    /\ ctxDone' = TRUE
    /\ mpc' = "wait"
    /\ UNCHANGED << env, shutdownErr, chanVars, handlerVars, batcherVars, timer >>

\* MainWait without the wait: main goes on whatever the batcher does.
MainWaitNoWait ==
    /\ mpc = "wait"
    /\ mpc' = "done"
    /\ UNCHANGED << env, ctxDone, shutdownErr, chanVars, handlerVars,
                    batcherVars, timer >>

\* wg.Wait() returns once Batcher.Run has returned; "Shutdown complete".
MainWait ==
    /\ mpc = "wait"
    /\ bpc = "done"
    /\ mpc' = "done"
    /\ UNCHANGED << env, ctxDone, shutdownErr, chanVars, handlerVars, batcherVars, timer >>

\* ------------------------------------------------------------------- timer

\* flushTimer.Stop(): it reports whether the call stopped the timer, i.e.
\* whether the timer was armed.
Stop(t) == [t EXCEPT !.armed = FALSE, !.left = 0]

\* select { case <-flushTimer.C: default: } and the receive of the select:
\* the value waiting in the channel, if any, is taken.
Drain(t) == [t EXCEPT !.tick = FALSE]

\* flushTimer.Reset(d).  A value already waiting in C stays there (the
\* behaviour before Go 1.23; from 1.23 on Reset discards it, and the two
\* agree wherever Reset follows a drain or a receive).
Reset(t, d) == [t EXCEPT !.armed = TRUE, !.left = d]

\* RestartTimer without the Reset: the timer is left stopped.
RestartTimerNoReset(t) == IF t.armed THEN Stop(t) ELSE Drain(Stop(t))

\* RestartTimer without the Stop and the drain: a value already waiting in
\* C survives the Reset.
RestartTimerNoDrain(t) == Reset(t, FlushTimeout)

\* The first entry of an accumulation: Stop, drain C if Stop reported
\* false, Reset.
RestartTimer(t) ==
    Reset(IF t.armed THEN Stop(t) ELSE Drain(Stop(t)), FlushTimeout)

\* One clock tick passes.  An armed timer whose time is up fires: the
\* runtime delivers its value on flushTimer.C, where it waits until the
\* batcher's select takes it.
Expire(t) ==
    IF ~t.armed THEN t
    ELSE IF t.left > 1 THEN [t EXCEPT !.left = @ - 1]
    ELSE [armed |-> FALSE, left |-> 0, tick |-> TRUE]

Tick ==
    /\ bpc # "done"
    /\ timer.armed \/ (totalEntries > 0 /\ elapsed < FlushTimeout)
    /\ timer' = Expire(timer)
    /\ elapsed' = IF totalEntries > 0 /\ elapsed < FlushTimeout
                    THEN elapsed + 1 ELSE elapsed
    /\ UNCHANGED << env, chanVars, mainVars, handlerVars, bpc, batches,
                    totalEntries, flushFrom, pushes, cycle, dequeued >>

\* ----------------------------------------------------------------- batcher

\* AddEntry putting the new entry first.
AddEntryFront(entries, entry) == << entry >> \o entries

\* batch.Entries = append(batch.Entries, entry)
\* AddEntry that keeps the new entry only: the earlier ones are removed.
AddEntryReplace(entries, entry) == << entry >>

AddEntry(entries, entry) == Append(entries, entry)

\* The get-or-create of the batch for the entry's label key, and the append.
AddToBatches(b, entry) ==
    LET key == computeLabelKey(entry.Labels)
        batch == IF key \in DOMAIN b
                   THEN b[key]
                   ELSE [Labels |-> entry.Labels, Entries |-> << >>]
    IN  [k \in DOMAIN b \cup {key} |->
            IF k = key
              THEN [batch EXCEPT !.Entries = AddEntry(@, entry)]
              ELSE b[k]]

\* SizeReached with > for >=.
SizeReachedLate(n) == n > env.batchSize

\* if totalEntries >= b.batchSize
SizeReached(n) == n >= env.batchSize

\* Resume without totalEntries = 0.
ResumeKeepTotal(from, tmr) ==
    IF from \in {"ctx", "closed"}
      THEN /\ bpc' = "done"
           /\ timer' = Stop(tmr)
           /\ UNCHANGED << batches, totalEntries, elapsed >>
      ELSE /\ bpc' = "select"
           /\ batches' = EmptyBatches
           /\ elapsed' = 0
           /\ timer' = IF from = "timer" THEN Reset(tmr, FlushTimeout) ELSE tmr
           /\ UNCHANGED totalEntries

\* Resume without batches = make(map[string]*Batch).
ResumeKeepBatches(from, tmr) ==
    IF from \in {"ctx", "closed"}
      THEN /\ bpc' = "done"
           /\ timer' = Stop(tmr)
           /\ UNCHANGED << batches, totalEntries, elapsed >>
      ELSE /\ bpc' = "select"
           /\ totalEntries' = 0
           /\ elapsed' = 0
           /\ timer' = IF from = "timer" THEN Reset(tmr, FlushTimeout) ELSE tmr
           /\ UNCHANGED batches

\* Resume with no return after a shutdown flush: the loop goes on.
ResumeNoReturn(from, tmr) ==
    /\ bpc' = "select"
    /\ batches' = EmptyBatches
    /\ totalEntries' = 0
    /\ elapsed' = 0
    /\ timer' = IF from = "timer" THEN Reset(tmr, FlushTimeout) ELSE tmr

\* The code that follows b.flush(batches) at each of its four call sites:
\* return (and the deferred flushTimer.Stop()) after a shutdown flush, the
\* reset of the map and the counter after a size or a timer flush, and the
\* timer's Reset at the end of the timer case.
Resume(from, tmr) ==
    IF from \in {"ctx", "closed"}
      THEN /\ bpc' = "done"
           /\ timer' = Stop(tmr)
           /\ UNCHANGED << batches, totalEntries, elapsed >>
      ELSE /\ bpc' = "select"
           /\ batches' = EmptyBatches
           /\ totalEntries' = 0
           /\ elapsed' = 0
           /\ timer' = IF from = "timer" THEN Reset(tmr, FlushTimeout) ELSE tmr

\* Flush without the check for an empty map: Push is called every time.
FlushNoEmptyCheck(from, b, n, el, tmr, cyc) ==
    /\ pushes' = Append(pushes, [batches |-> b, from |-> from,
                                 elapsed |-> el, cycle |-> cyc])
    /\ bpc' = "pushing"
    /\ flushFrom' = from
    /\ batches' = b
    /\ totalEntries' = n
    /\ elapsed' = el
    /\ timer' = tmr
    /\ cycle' = << >>

\* b.flush(b) called from `from`, the batcher's locals being b, n, el, tmr:
\* it returns at once on an empty map, and calls Push otherwise.
Flush(from, b, n, el, tmr, cyc) ==
    IF DOMAIN b = {}
      THEN /\ Resume(from, tmr)
           /\ cycle' = cyc
           /\ UNCHANGED << flushFrom, pushes >>
      ELSE /\ pushes' = Append(pushes, [batches |-> b, from |-> from,
                                        elapsed |-> el, cycle |-> cyc])
           /\ bpc' = "pushing"
           /\ flushFrom' = from
           /\ batches' = b
           /\ totalEntries' = n
           /\ elapsed' = el
           /\ timer' = tmr
           /\ cycle' = << >>

\* BatcherCtxDone with a Push that runs under the batcher's context: the
\* cancel aborts a Push in flight and Run returns.
BatcherCtxDoneAbort ==
    /\ ctxDone
    /\ bpc \in {"select", "pushing"}
    /\ IF bpc = "pushing"
         THEN /\ bpc' = "done"
              /\ flushFrom' = "none"
              /\ timer' = Stop(timer)
              /\ UNCHANGED << batches, totalEntries, elapsed, pushes, cycle >>
         ELSE Flush("ctx", batches, totalEntries, elapsed, timer, cycle)
    /\ UNCHANGED << env, chanVars, mainVars, handlerVars, dequeued >>

\* BatcherCtxDone with a bare return: the accumulated batches are not
\* flushed.
BatcherCtxDoneNoFlush ==
    /\ bpc = "select"
    /\ ctxDone
    /\ bpc' = "done"
    /\ timer' = Stop(timer)
    /\ UNCHANGED << env, chanVars, mainVars, handlerVars, batches,
                    totalEntries, elapsed, flushFrom, pushes, cycle,
                    dequeued >>

\* case <-b.ctx.Done()
BatcherCtxDone ==
    /\ bpc = "select"
    /\ ctxDone
    /\ Flush("ctx", batches, totalEntries, elapsed, timer, cycle)
    /\ UNCHANGED << env, chanVars, mainVars, handlerVars, dequeued >>

\* BatcherChanClosed with a receive that reports the closure while entries
\* are still buffered.
BatcherChanClosedEarly ==
    /\ bpc = "select"
    /\ closed
    /\ Flush("closed", batches, totalEntries, elapsed, timer, cycle)
    /\ UNCHANGED << env, chanVars, mainVars, handlerVars, dequeued >>

\* case entry, ok := <-b.entryChan with ok false: closed and drained.
BatcherChanClosed ==
    /\ bpc = "select"
    /\ closed
    /\ entryChan = << >>
    /\ Flush("closed", batches, totalEntries, elapsed, timer, cycle)
    /\ UNCHANGED << env, chanVars, mainVars, handlerVars, dequeued >>

\* BatcherEntry restarting the timer at every entry, not at the first only.
BatcherEntryAlwaysRestart ==
    /\ bpc = "select"
    /\ entryChan # << >>
    /\ LET entry == Head(entryChan)
           tmr == RestartTimer(timer)
           el == IF totalEntries = 0 THEN 0 ELSE elapsed
           b == AddToBatches(batches, entry)
           n == totalEntries + 1
           cyc == Append(cycle, entry)
       IN  /\ entryChan' = Tail(entryChan)
           /\ dequeued' = Append(dequeued, entry)
           /\ IF SizeReached(n)
                THEN Flush("size", b, n, el, tmr, cyc)
                ELSE /\ batches' = b
                     /\ totalEntries' = n
                     /\ elapsed' = el
                     /\ timer' = tmr
                     /\ cycle' = cyc
                     /\ UNCHANGED << bpc, flushFrom, pushes >>
    /\ UNCHANGED << env, closed, enqueued, mainVars, handlerVars >>

\* case entry, ok := <-b.entryChan with ok true.
BatcherEntry ==
    /\ bpc = "select"
    /\ entryChan # << >>
    /\ LET entry == Head(entryChan)
           first == totalEntries = 0
           tmr == IF first THEN RestartTimer(timer) ELSE timer
           el == IF first THEN 0 ELSE elapsed
           b == AddToBatches(batches, entry)
           n == totalEntries + 1
           cyc == Append(cycle, entry)
       IN  /\ entryChan' = Tail(entryChan)
           /\ dequeued' = Append(dequeued, entry)
           /\ IF SizeReached(n)
                THEN Flush("size", b, n, el, tmr, cyc)
                ELSE /\ batches' = b
                     /\ totalEntries' = n
                     /\ elapsed' = el
                     /\ timer' = tmr
                     /\ cycle' = cyc
                     /\ UNCHANGED << bpc, flushFrom, pushes >>
    /\ UNCHANGED << env, closed, enqueued, mainVars, handlerVars >>

\* BatcherTimer with a timer case that is also taken while a Push is in
\* flight: it takes the value from flushTimer.C and rearms the timer.
BatcherTimerDuringPush ==
    /\ bpc \in {"select", "pushing"}
    /\ timer.tick
    /\ IF bpc = "select" /\ totalEntries > 0
         THEN Flush("timer", batches, totalEntries, elapsed, Drain(timer),
                    cycle)
         ELSE /\ timer' = Reset(Drain(timer), FlushTimeout)
              /\ UNCHANGED << bpc, batches, totalEntries, elapsed, flushFrom,
                              pushes, cycle >>
    /\ UNCHANGED << env, chanVars, mainVars, handlerVars, dequeued >>

\* case <-flushTimer.C
BatcherTimer ==
    /\ bpc = "select"
    /\ timer.tick
    /\ IF totalEntries > 0
         THEN Flush("timer", batches, totalEntries, elapsed, Drain(timer),
                    cycle)
         ELSE /\ timer' = Reset(Drain(timer), FlushTimeout)
              /\ UNCHANGED << bpc, batches, totalEntries, elapsed, flushFrom,
                              pushes, cycle >>
    /\ UNCHANGED << env, chanVars, mainVars, handlerVars, dequeued >>

\* PushReturn with a retry: after an error the same batches are pushed again.
PushReturnRetry ==
    /\ bpc = "pushing"
    /\ \E err \in env.sink :
          IF err = "error"
            THEN /\ pushes' = Append(pushes, pushes[Len(pushes)])
                 /\ UNCHANGED << bpc, batches, totalEntries, elapsed,
                                 flushFrom, timer >>
            ELSE /\ Resume(flushFrom, timer)
                 /\ flushFrom' = "none"
                 /\ pushes' = pushes
    /\ UNCHANGED << env, chanVars, mainVars, handlerVars, cycle, dequeued >>

\* b.lokiClient.Push returns, with an error or without: flush logs either
\* outcome and returns to its call site, which does the same after both.
PushReturn ==
    /\ bpc = "pushing"
    /\ \E err \in env.sink : Resume(flushFrom, timer)
    /\ flushFrom' = "none"
    /\ pushes' = pushes
    /\ UNCHANGED << env, chanVars, mainVars, handlerVars, cycle, dequeued >>

\* ----------------------------------------------------------- specification

Next ==
    \/ \E h \in Handlers : HandlerStart(h)
    \/ \E h \in Handlers : HandlerScan(h)
    \/ \E h \in Handlers : HandlerSend(h)
    \/ \E h \in Handlers : HandlerFinish(h)
    \/ MainSignal
    \/ ServerShutdownIdle
    \/ ServerShutdownDeadline
    \/ MainClose
    \/ MainCancel
    \/ MainWait
    \/ Tick
    \/ BatcherCtxDone
    \/ BatcherChanClosed
    \/ BatcherEntry
    \/ BatcherTimer
    \/ PushReturn

Spec == Init /\ [][Next]_vars

\* The batcher goroutine is scheduled, time passes and the runtime fires the
\* timer, Push returns (it runs under a 30 s deadline), and main is
\* scheduled when wg.Wait() can return.
Fairness ==
    /\ WF_vars(Tick)
    /\ WF_vars(BatcherCtxDone)
    /\ WF_vars(BatcherChanClosed)
    /\ WF_vars(BatcherEntry)
    /\ WF_vars(BatcherTimer)
    /\ WF_vars(PushReturn)
    /\ WF_vars(MainWait)

\* The grouping scenario: a batch size no run reaches, and request bodies
\* made of lines of two label sets that differ in type only.
ScenarioBatchSize == MaxLines + 1

LabelsA == [type |-> << "s" >>, environment_name |-> << "c" >>,
            tenant_name |-> << "t" >>]
LabelsB == [type |-> << "a", "|", "b" >>, environment_name |-> << "c" >>,
            tenant_name |-> << "t" >>]

ScenarioLines ==
    { RawLine("object", << "1", "Z" >>, l.type, l.environment_name,
              l.tenant_name) : l \in {LabelsA, LabelsB} }

InitScenario ==
    InitWith([Env EXCEPT !.batchSize = ScenarioBatchSize,
                         !.lines = ScenarioLines,
                         !.requests = {GoodRequest}])

SpecScenario == InitScenario /\ [][Next]_vars

\* The pipeline run on lines of two label sets and two timestamps, all of
\* which fit into one accumulation.
PushLines ==
    { RawLine("object", << "1", "Z" >>, LabelsA.type,
              LabelsA.environment_name, LabelsA.tenant_name),
      RawLine("object", << "1", ".", "5", "Z" >>, LabelsA.type,
              LabelsA.environment_name, LabelsA.tenant_name),
      RawLine("object", << "1", ".", "5", "Z" >>, LabelsB.type,
              LabelsB.environment_name, LabelsB.tenant_name) }

InitPush ==
    InitWith([Env EXCEPT !.batchSize = ScenarioBatchSize,
                         !.lines = PushLines,
                         !.requests = {GoodRequest}])

SpecPush == InitPush /\ [][Next]_vars

\* Under fairness the pipeline is run on admitted requests whose bodies are
\* made of valid lines of two label sets.
InitFair ==
    InitWith([Env EXCEPT !.lines = ScenarioLines, !.requests = {GoodRequest}])

FairSpec == InitFair /\ [][Next]_vars /\ Fairness

\* The handler alone, served a request whose body repeats one line, any of
\* RawLines: parseLogLine and the body loop on every kind of line.
InitParse ==
    \E l \in RawLines :
        InitWith([Env EXCEPT !.lines = {l}, !.requests = {GoodRequest}])

NextHandler ==
    \/ \E h \in Handlers : HandlerStart(h)
    \/ \E h \in Handlers : HandlerScan(h)
    \/ \E h \in Handlers : HandlerSend(h)
    \/ \E h \in Handlers : HandlerFinish(h)

SpecParse == InitParse /\ [][NextHandler]_vars

\* The handler alone, served one request, any of AllRequests, with the body
\* lines of Lines: the checks in front of the body loop on every request.
InitGate ==
    \E r \in AllRequests : InitWith([Env EXCEPT !.requests = {r}])

SpecGate == InitGate /\ [][NextHandler]_vars

\* main from its entry, on every command line of Args and every
\* environment of Environs.
NoConfig ==
    [LokiURL |-> << >>, HMACSecret |-> << >>, CustomAuthToken |-> << >>,
     BatchSize |-> 0, BatchFlush |-> 0, VerboseLogging |-> FALSE]

InitConfig ==
    \E a \in Args, e \in Environs :
        InitAt([batchSize |-> 0, chanCap |-> ChanCap, lines |-> Lines,
                requests |-> Requests, sink |-> {"ok", "error"},
                args |-> a, environ |-> e, cfg |-> NoConfig], "start")

NextConfig == MainLoadConfig

SpecConfig == InitConfig /\ [][NextConfig]_vars

\* The pipeline with an entry channel of capacity 1, on admitted requests
\* whose bodies are made of valid lines: the channel fills up while a Push
\* is in flight and lines are left over.
SmallChanCap == 1

InitSmallChan ==
    InitWith([Env EXCEPT !.chanCap = SmallChanCap,
                         !.lines = ScenarioLines,
                         !.requests = {GoodRequest}])

SpecSmallChan == InitSmallChan /\ [][Next]_vars

\* The pipeline in front of a sink that is down: every Push returns an error.
InitSinkDown == InitWith([Env EXCEPT !.sink = {"error"}])

SpecSinkDown == InitSinkDown /\ [][Next]_vars

\* ---------------------------------------------------- history, for the claims

Range(seq) == { seq[i] : i \in 1..Len(seq) }

\* The entries a map of batches holds, over all its streams.
EntriesOf(b) == UNION { Range(b[k].Entries) : k \in DOMAIN b }

\* The number of entries a map of batches holds, summed over its streams.
RECURSIVE SumLen(_, _)
SumLen(b, ks) ==
    IF ks = {} THEN 0
    ELSE LET k == CHOOSE x \in ks : TRUE
         IN  Len(b[k].Entries) + SumLen(b, ks \ {k})

TotalOf(b) == SumLen(b, DOMAIN b)

\* Every entry handed to some Push call so far.
Pushed == UNION { EntriesOf(pushes[i].batches) : i \in 1..Len(pushes) }

\* The entries of a sequence that carry the label set l, in order.
WithLabels(seq, l) ==
    LET Same(e) == e.Labels = l IN SelectSeq(seq, Same)

\* Run has returned.
Terminated == bpc = "done"

\* ------------------------------------------------------------------ claims

\* C1 (shutdown drain).  Once Run has returned, every entry the channel
\* accepted has been handed to some Push call (stated for the runs in which
\* server.Shutdown returned nil, every handler having finished).
C1_ShutdownDrain ==
    (Terminated /\ ~shutdownErr) => \A i \in 1..Len(enqueued) : enqueued[i] \in Pushed

\* C2 (shutdown scenario).  With N entries enqueued, 1 <= N < batch size,
\* and no timer-triggered flush, once Run has returned exactly one Push call
\* has been made and it carries all N entries (stated for the runs in which
\* server.Shutdown returned nil).
C2_ShutdownOnePush ==
    ( /\ Terminated
      /\ ~shutdownErr
      /\ Len(enqueued) >= 1
      /\ Len(enqueued) < BatchSize
      /\ \A i \in 1..Len(pushes) : pushes[i].from # "timer" )
    => /\ Len(pushes) = 1
       /\ EntriesOf(pushes[1].batches) = Range(enqueued)

\* C3 (the producer never blocks).  Every send attempt of a handler ends at
\* once in one of two ways: the entry is enqueued (capacity available) or it
\* is dropped and counted (channel full); the handler then goes on to the
\* next line.
C3_SendEnqueuesOrDrops ==
    [][ \A h \in Handlers :
          (hpc[h] = "send" /\ hpc'[h] # "send") =>
             /\ hpc'[h] = "scan"
             /\ \/ /\ Len(entryChan) < ChanCap
                   /\ entryChan' = Append(entryChan, pending[h])
                   /\ errorCount'[h] = errorCount[h]
                \/ /\ Len(entryChan) = ChanCap
                   /\ entryChan' = entryChan
                   /\ errorCount'[h] = errorCount[h] + 1 ]_vars

\* C4 (backpressure).  A send attempted while the channel holds ChanCap
\* entries drops the entry: the channel and its content are unchanged and
\* the handler's error counter goes up by one.
C4_FullChannelDrops ==
    [][ \A h \in Handlers :
          (hpc[h] = "send" /\ hpc'[h] # "send" /\ Len(entryChan) = ChanCap) =>
             /\ entryChan' = entryChan
             /\ enqueued' = enqueued
             /\ errorCount'[h] = errorCount[h] + 1 ]_vars

\* C5 (grouping).  In every Push call, for every label set l, the batch of
\* l holds exactly the entries with labels l dequeued since the previous
\* flush, in the order they were dequeued (and there is no batch of l when
\* there is no such entry).
C5_BatchIsLabelSet ==
    \A i \in 1..Len(pushes) : \A l \in LabelSets :
        LET b == pushes[i].batches
            k == computeLabelKey(l)
            mine == WithLabels(pushes[i].cycle, l)
        IN  IF mine = << >>
              THEN \A x \in DOMAIN b : b[x].Labels # l
              ELSE k \in DOMAIN b /\ b[k].Labels = l /\ b[k].Entries = mine

\* The place of an enqueued entry in the order the channel accepted them.
EnqPos(e) == CHOOSE n \in 1..Len(enqueued) : enqueued[n] = e

\* C6 (FIFO per label set).  The batcher receives the entries in the order
\* the channel accepted them, and of two pushed entries with the same labels
\* the one enqueued first is in an earlier Push call, or earlier in the same
\* stream of the same Push call.
C6_FifoPerLabelSet ==
    /\ enqueued = dequeued \o entryChan
    /\ \A i \in 1..Len(pushes), j \in 1..Len(pushes) :
         \A ki \in DOMAIN pushes[i].batches, kj \in DOMAIN pushes[j].batches :
           \A x \in 1..Len(pushes[i].batches[ki].Entries),
              y \in 1..Len(pushes[j].batches[kj].Entries) :
             LET e1 == pushes[i].batches[ki].Entries[x]
                 e2 == pushes[j].batches[kj].Entries[y]
             IN  (e1.Labels = e2.Labels /\ EnqPos(e1) < EnqPos(e2))
                    => (i < j \/ (i = j /\ ki = kj /\ x < y))

\* Two entries with the same labels were pushed in one stream, and two in
\* different Push calls.
C6_Witness ==
    /\ \E i \in 1..Len(pushes) : \E k \in DOMAIN pushes[i].batches :
          LET es == pushes[i].batches[k].Entries
          IN  Len(es) >= 2 /\ es[1].Labels = es[2].Labels
    /\ Len(pushes) >= 2

\* C7 as stated.  When the entry after the (k*T)-th dequeued entry is
\* accepted, a flush has occurred since the (k*T)-th was dequeued.
C7_FlushAfterEveryKT ==
    [][ ( /\ dequeued' # dequeued
          /\ Len(dequeued) > 0
          /\ Len(dequeued) % BatchSize = 0 ) => cycle = << >> ]_vars

\* C7 as amended.  The count that triggers the size flush restarts at every
\* flush: fewer than T entries have been dequeued since the last flush call
\* whenever the batcher is about to accept an entry (the T-th one and the
\* flush call are one step of the loop), and in the runs without a
\* timer-triggered flush the (k*T)-th entry dequeued is followed by a flush
\* before the next one is accepted.
C7_SizeTrigger ==
    /\ Len(cycle) < BatchSize
    /\ (\A i \in 1..Len(pushes) : pushes[i].from # "timer") =>
          (Len(dequeued) % BatchSize = 0 => cycle = << >>)

\* A timer-triggered flush was followed by a size-triggered one.
C7_Witness ==
    \E i \in 1..Len(pushes), j \in 1..Len(pushes) :
        i < j /\ pushes[i].from = "timer" /\ pushes[j].from = "size"

\* C8 (size flush).  A size-triggered Push carries all the entries dequeued
\* since the last flush, T of them; the batcher never waits in its select
\* with T entries accumulated, and after the flush it is back there with an
\* empty map and a zero counter; T entries dequeued with no timer-triggered
\* flush have given exactly one Push call, triggered by size.
C8_SizeFlush ==
    /\ \A i \in 1..Len(pushes) :
          pushes[i].from = "size" =>
             /\ TotalOf(pushes[i].batches) = BatchSize
             /\ Len(pushes[i].cycle) = BatchSize
             /\ EntriesOf(pushes[i].batches) = Range(pushes[i].cycle)
    /\ bpc = "select" => totalEntries < BatchSize
    /\ (bpc = "select" /\ cycle = << >>) =>
          (DOMAIN batches = {} /\ totalEntries = 0)
    /\ ( /\ Len(dequeued) = BatchSize
         /\ \A i \in 1..Len(pushes) : pushes[i].from # "timer" )
       => (Len(pushes) = 1 /\ pushes[1].from = "size")

\* A size-triggered Push is in flight while a further entry waits in the
\* channel.
C8_Witness ==
    bpc = "pushing" /\ flushFrom = "size" /\ entryChan # << >>

\* C9 (the batch size is a maximum).  No Push call carries more than
\* BatchSize entries, summed over its streams.
C9_PushAtMostBatchSize ==
    \A i \in 1..Len(pushes) : TotalOf(pushes[i].batches) <= BatchSize

\* A Push call carried BatchSize entries in two streams.
C9_Witness ==
    \E i \in 1..Len(pushes) :
        /\ TotalOf(pushes[i].batches) = BatchSize
        /\ Cardinality(DOMAIN pushes[i].batches) >= 2

C11_EventualFlush ==
    (totalEntries > 0) ~> (\A i \in 1..Len(dequeued) : dequeued[i] \in Pushed)

\* The timer alone flushed an accumulation short of the size threshold: no
\* entry was waiting or on its way, and no shutdown had begun.
C11_Witness ==
    /\ mpc = "serving" /\ bpc = "select" /\ totalEntries = 0
    /\ entryChan = << >> /\ \A h \in Handlers : hpc[h] = "done"
    /\ Len(pushes) = 1 /\ pushes[1].from = "timer"
    /\ Len(pushes[1].cycle) < BatchSize

LabelsOf(seq) == [i \in 1..Len(seq) |-> seq[i].Labels]

\* The scenario's arrivals: two entries of A, then one of B, nothing else.
ScenarioArrived == LabelsOf(dequeued) = << LabelsA, LabelsA, LabelsB >>

\* The Push call carries exactly two batches: the two entries of A, in
\* order, under the labels of A, and the entry of B under the labels of B.
ScenarioPush(p) ==
    /\ Cardinality(DOMAIN p.batches) = 2
    /\ \E ka \in DOMAIN p.batches, kb \in DOMAIN p.batches :
          /\ p.batches[ka].Labels = LabelsA
          /\ p.batches[ka].Entries = << dequeued[1], dequeued[2] >>
          /\ p.batches[kb].Labels = LabelsB
          /\ p.batches[kb].Entries = << dequeued[3] >>

\* C12 as stated.  With no shutdown begun and the three entries arrived,
\* either no Push call has been made yet or exactly one has, after the flush
\* interval, with the two batches.
C12_OnePushWhateverTheTiming ==
    (mpc = "serving" /\ ScenarioArrived) =>
        \/ pushes = << >>
        \/ /\ Len(pushes) = 1
           /\ pushes[1].elapsed >= FlushTimeout
           /\ ScenarioPush(pushes[1])

\* C12 (grouping scenario).  With no shutdown begun, no Push call is made
\* before the flush interval has passed since the first entry of its
\* accumulation was dequeued; and when the three entries were all dequeued
\* before the first Push call, that call is the only one and carries the
\* two batches.
C12_Scenario ==
    mpc = "serving" =>
        /\ \A i \in 1..Len(pushes) :
              pushes[i].from = "timer" /\ pushes[i].elapsed >= FlushTimeout
        /\ ( /\ ScenarioArrived
             /\ pushes # << >>
             /\ Len(pushes[1].cycle) = 3 )
           => (Len(pushes) = 1 /\ ScenarioPush(pushes[1]))

\* The three entries were dequeued within the interval and the timer has
\* flushed them in one Push call.
C12_Witness ==
    /\ mpc = "serving" /\ ScenarioArrived
    /\ pushes # << >> /\ Len(pushes[1].cycle) = 3
    /\ bpc = "select" /\ totalEntries = 0

\* C13 (sink failure policy).  With every Push returning an error: no entry
\* is in two Push calls; while the batcher waits in its select, its map
\* holds the entries dequeued since the last flush call and no other, and
\* its counter counts them, so after a failed Push both start from nothing;
\* and the batcher stops only on shutdown.
C13_FailedPushDiscarded ==
    /\ \A i \in 1..Len(pushes), j \in 1..Len(pushes) :
          i # j => EntriesOf(pushes[i].batches)
                      \cap EntriesOf(pushes[j].batches) = {}
    /\ bpc = "select" =>
          /\ EntriesOf(batches) = Range(cycle)
          /\ TotalOf(batches) = Len(cycle)
          /\ totalEntries = Len(cycle)
    /\ bpc = "done" => (ctxDone \/ closed)

\* A Push has failed and returned, and the batcher, back in its select with
\* no shutdown begun, has accepted the next entry into a fresh map.
C13_Witness ==
    /\ env.sink = {"error"}
    /\ mpc = "serving" /\ bpc = "select"
    /\ Len(pushes) = 1 /\ totalEntries = 1 /\ Len(dequeued) > Len(cycle)

\* The line of the request bodies, in SpecParse.
TheLine == CHOOSE l \in env.lines : TRUE

MissingMember(line) ==
    Absent \in {line.date, line.type, line.environment_name, line.tenant_name}

\* A line that is not blank and is no JSON, lacks a required member or has
\* a timestamp that is no RFC 3339 string.
Malformed(line) ==
    /\ line.form \notin {"empty", "spaces"}
    /\ \/ line.form # "object"
       \/ MissingMember(line)
       \/ line.date \notin RFC3339Strings

\* C14 (malformed lines).  Once the handler has read a malformed line,
\* parseLogLine has returned an error for every line read and no entry is
\* on its way to the channel or in it.
C14_MalformedRejected ==
    \A h \in Handlers :
        (Malformed(TheLine) /\ lineCount[h] > 0) =>
            /\ parseLogLine(1, TheLine).err # "none"
            /\ hpc[h] # "send" /\ pending[h] = NoEntry
            /\ enqueued = << >>

\* A JSON object with an RFC 3339 timestamp and the three label members.
Valid(line) ==
    /\ line.form = "object"
    /\ line.date \in RFC3339Strings
    /\ ~MissingMember(line)

\* C15 (valid lines).  For a valid line parseLogLine returns no error, and
\* the entry the handler offers to the channel, like every entry the channel
\* has accepted, has the input line as its Line and exactly the pairs type,
\* environment_name, tenant_name of the line's members as its Labels.
C15_ValidLineParsed ==
    LET Faithful(e) ==
            /\ e.Line = TheLine
            /\ DOMAIN e.Labels = {"type", "environment_name", "tenant_name"}
            /\ e.Labels["type"] = TheLine.type
            /\ e.Labels["environment_name"] = TheLine.environment_name
            /\ e.Labels["tenant_name"] = TheLine.tenant_name
    IN  Valid(TheLine) =>
            /\ parseLogLine(1, TheLine).err = "none"
            /\ \A h \in Handlers : hpc[h] = "send" => Faithful(pending[h])
            /\ \A i \in 1..Len(enqueued) : Faithful(enqueued[i])

\* A valid line with a fractional timestamp and a '|' in its type has been
\* parsed and its entry accepted by the channel.
C15_Witness ==
    /\ Valid(TheLine) /\ Len(TheLine.date) = 4 /\ Len(TheLine.type) = 3
    /\ enqueued # << >>

\* C16 (blank lines).  With a body of empty or whitespace-only lines the
\* handler counts no line and no error, builds no entry and offers nothing
\* to the channel.
C16_BlankLinesSkipped ==
    TheLine.form \in {"empty", "spaces"} =>
        /\ \A h \in Handlers :
              /\ errorCount[h] = 0 /\ lineCount[h] = 0
              /\ hpc[h] # "send" /\ pending[h] = NoEntry
        /\ enqueued = << >> /\ entryChan = << >>

\* The handler has read whitespace-only lines to the end of the body and
\* answered 202.
C16_Witness ==
    /\ TheLine.form = "spaces" /\ scanned >= 2
    /\ \E h \in Handlers : status[h] = 202

\* C17 (the label key is injective).  Two entries the batcher has received
\* with label sets that differ in type, environment_name or tenant_name
\* have different keys, and entries with equal label sets have equal keys.
C17_KeyInjective ==
    \A i \in 1..Len(dequeued), j \in 1..Len(dequeued) :
        (dequeued[i].Labels = dequeued[j].Labels)
            <=> (computeLabelKey(dequeued[i].Labels)
                    = computeLabelKey(dequeued[j].Labels))

\* C18 (batch label homogeneity).  Every entry held in a batch of the
\* batcher's map, and every entry of a batch handed to Push, has the
\* label set of its batch.
C18_BatchHomogeneous ==
    LET Homogeneous(b) ==
            \A k \in DOMAIN b : \A i \in 1..Len(b[k].Entries) :
                b[k].Entries[i].Labels = b[k].Labels
    IN  /\ Homogeneous(batches)
        /\ \A p \in 1..Len(pushes) : Homogeneous(pushes[p].batches)

\* The request served, in SpecGate.
TheRequest == CHOOSE r \in env.requests : TRUE

\* A POST whose client IP passed the allowlist check (in the allowlist, or
\* local with allow-local enabled, or verbose mode on) and that carries a
\* tenant and a bearer token that matches: the custom token if one is
\* configured, else the hexadecimal HMAC of the tenant under the secret.
Admitted(r) ==
    /\ r.method = "POST"
    /\ r.isAllowed \/ (r.isLocal /\ r.allowLocalIPs) \/ r.verboseLogging
    /\ r.tenant # << >> /\ r.authorization = "bearer"
    /\ IF r.customAuthToken # << >>
         THEN r.token = r.customAuthToken
         ELSE /\ r.hmacSecret # << >>
              /\ r.token = << "x", "#" >> \o r.hmacSecret \o << ":" >>
                              \o r.tenant

\* C19 (request gating).  For a request that is not admitted the handler
\* never enters the body loop: no line is read, counted or parsed, nothing
\* is offered to the channel, the channel stays as it was, and the answer,
\* once written, is a rejection.
C19_RequestGated ==
    ~Admitted(TheRequest) =>
        /\ \A h \in Handlers :
              /\ hpc[h] \in {"idle", "done"}
              /\ lineCount[h] = 0 /\ errorCount[h] = 0
              /\ pending[h] = NoEntry
              /\ status[h] \in {0, 400, 401, 403, 405}
        /\ scanned = 0
        /\ entryChan = << >> /\ enqueued = << >>

\* A POST from outside the allowlist has passed the IP check in verbose
\* mode and has been turned away by authenticateRequest.
C19_Witness ==
    /\ TheRequest.method = "POST" /\ TheRequest.verboseLogging
    /\ ~TheRequest.isAllowed /\ ~TheRequest.isLocal
    /\ TheRequest.authorization = "bearer" /\ TheRequest.token = << "z" >>
    /\ \E h \in Handlers : hpc[h] = "done" /\ status[h] = 401

\* C20 (202 means enqueued).  A handler that has answered 202 has put every
\* non-empty line of the body on the channel: it counted no parse error and
\* no dropped entry, and the channel accepted as many entries as it counted
\* lines.
C20_AcceptedMeansEnqueued ==
    \A h \in Handlers :
        status[h] = 202 =>
            errorCount[h] = 0 /\ Len(enqueued) = lineCount[h]

\* C21 (flags take precedence).  In the Config LoadConfig returns, every
\* setting whose flag was given on the command line has the flag's value.
C21_FlagsTakePrecedence ==
    mpc = "serving" =>
        /\ env.args.lokiURL.given => env.cfg.LokiURL = env.args.lokiURL.value
        /\ env.args.hmacSecret.given =>
              env.cfg.HMACSecret = env.args.hmacSecret.value
        /\ env.args.batchSize.given =>
              env.cfg.BatchSize = env.args.batchSize.value
        /\ env.args.batchFlush.given =>
              env.cfg.BatchFlush = env.args.batchFlush.value
        /\ env.args.verbose.given =>
              env.cfg.VerboseLogging = env.args.verbose.value

\* C22 (the custom token takes precedence).  With a custom token configured,
\* a POST that passed the IP check is turned away with 400 when it has no
\* tenant, and one with a tenant and a Bearer header is turned away with 401
\* exactly when its token is not the custom token, whatever the HMAC secret.
C22_CustomTokenPrecedence ==
    \A h \in Handlers :
        ( /\ hpc[h] # "idle"
          /\ TheRequest.method = "POST" /\ ~ipRejected(TheRequest)
          /\ TheRequest.customAuthToken # << >> )
        => /\ TheRequest.tenant = << >> =>
                (hpc[h] = "done" /\ status[h] = 400 /\ scanned = 0)
           /\ (TheRequest.tenant # << >>
                 /\ TheRequest.authorization = "bearer")
              => /\ (TheRequest.token # TheRequest.customAuthToken)
                       <=> (status[h] = 401)
                 /\ status[h] = 401 => (hpc[h] = "done" /\ scanned = 0)

\* With a custom token and an HMAC secret configured, a request carrying
\* the valid HMAC token of its tenant has been turned away with 401.
C22_Witness ==
    /\ TheRequest.customAuthToken # << >> /\ TheRequest.hmacSecret # << >>
    /\ TheRequest.tenant # << >> /\ TheRequest.authorization = "bearer"
    /\ ~hexDecodeString(TheRequest.token).err
    /\ \E h \in Handlers : hpc[h] = "done" /\ status[h] = 401

\* C23 (termination protocol order).  main's steps come in the order
\* signal, server.Shutdown, close(entryChan), cancel(), wg.Wait(),
\* "Shutdown complete": the channel is closed in one step only, after
\* server.Shutdown has returned and before the cancel, and never reopened;
\* the context is cancelled in one step only, with the channel closed; and
\* "Shutdown complete" is reached only with Batcher.Run returned.
C23_ShutdownOrder ==
    [][ /\ mpc' # mpc =>
              << mpc, mpc' >> \in { << "serving", "shutdown" >>,
                                    << "shutdown", "close" >>,
                                    << "close", "cancel" >>,
                                    << "cancel", "wait" >>,
                                    << "wait", "done" >> }
        /\ closed' # closed =>
              (~closed /\ mpc = "close" /\ mpc' = "cancel" /\ ~ctxDone)
        /\ ctxDone' # ctxDone =>
              (~ctxDone /\ closed /\ mpc = "cancel" /\ mpc' = "wait")
        /\ mpc' = "done" => (bpc = "done" /\ closed /\ ctxDone) ]_vars

\* main has gone through the whole sequence and reached "Shutdown
\* complete", server.Shutdown having returned without an error.
C23_Witness ==
    mpc = "done" /\ bpc = "done" /\ closed /\ ctxDone /\ ~shutdownErr

\* C24 (the channel is closed after the producers have stopped).  Once main
\* has closed the channel no handler is at the send of its body loop, and
\* no handler has panicked on a send.
C24_NoSendAfterClose ==
    \A h \in Handlers :
        /\ hpc[h] # "panic"
        /\ closed => hpc[h] # "send"

\* C25 (cooperative cancellation).  The cancel leaves a Push in flight as
\* it is; a Push in flight ends only by returning to its call site, which
\* for a size or timer flush is the loop, where the cancel is seen at the
\* next select; and Run returns either from a shutdown flush whose Push has
\* returned or from the select with nothing to flush.
C25_CancelWaitsForPush ==
    [][ /\ (bpc = "pushing" /\ ctxDone' # ctxDone) =>
              (bpc' = "pushing" /\ flushFrom' = flushFrom
                 /\ pushes' = pushes /\ batches' = batches)
        /\ (bpc = "pushing" /\ bpc' # "pushing") =>
              /\ flushFrom' = "none" /\ pushes' = pushes
              /\ bpc' = IF flushFrom \in {"size", "timer"}
                          THEN "select" ELSE "done"
        /\ (bpc = "select" /\ bpc' = "done") =>
              (batches = EmptyBatches /\ pushes' = pushes
                 /\ (ctxDone \/ closed)) ]_vars

\* The cancel has arrived while the Push of a size or timer flush is in
\* flight.
C25_Witness ==
    ctxDone /\ bpc = "pushing" /\ flushFrom \in {"size", "timer"}

\* C26 (shutdown terminates).  Under FairSpec, once the channel is closed
\* and the context cancelled, Batcher.Run returns and main reaches
\* "Shutdown complete", whatever is still in the channel and whatever the
\* last Push returns.
C26_ShutdownTerminates ==
    (closed /\ ctxDone) ~> (bpc = "done" /\ mpc = "done")

\* main has closed the channel and cancelled the context with the channel
\* full, an accumulation in the map and the batcher in its select.
C26_Witness ==
    /\ closed /\ ctxDone /\ mpc = "wait"
    /\ Len(entryChan) = ChanCap /\ totalEntries > 0 /\ bpc = "select"

\* The shutdown signal and a timer expiry are both pending in the batcher's
\* select, with entries accumulated and none left in the channel.
Race ==
    /\ bpc = "select" /\ ctxDone /\ timer.tick
    /\ totalEntries > 0 /\ entryChan = << >>

\* C27 (shutdown/timer race).  From a Race state, whichever case the select
\* takes hands the same accumulated batches to Push; with the context
\* cancelled and the channel empty no other Push follows; and the batcher
\* ends Terminated with every dequeued entry delivered.
C27_RaceConverges ==
    /\ [][ (Race /\ bpc' # bpc) =>
              /\ bpc' = "pushing"
              /\ Len(pushes') = Len(pushes) + 1
              /\ pushes'[Len(pushes')].batches = batches ]_vars
    /\ [][ (ctxDone /\ entryChan = << >>
              /\ (bpc = "pushing" \/ totalEntries = 0)) =>
              pushes' = pushes ]_vars
    /\ Race ~> (Terminated /\ Pushed = Range(dequeued))

\* The timer case won the race: its Push is in flight, the context is
\* cancelled and the channel is empty.
C27_Witness ==
    /\ ctxDone /\ entryChan = << >>
    /\ bpc = "pushing" /\ flushFrom = "timer"

\* The entries dequeued during the accumulations of the first n Push calls,
\* in the order of their arrival.
RECURSIVE PushedCycles(_)
PushedCycles(n) ==
    IF n = 0 THEN << >> ELSE PushedCycles(n - 1) \o pushes[n].cycle

\* C28 (exactly one Push per dequeued entry).  The dequeued entries are, in
\* order, those of the accumulations handed to Push followed by those of the
\* accumulation in progress; each Push call carries exactly the entries of
\* its accumulation, each once; and once the batcher has terminated no
\* accumulation is left behind.
C28_ExactlyOnePush ==
    /\ dequeued = PushedCycles(Len(pushes)) \o cycle
    /\ \A i \in 1..Len(pushes) :
          /\ TotalOf(pushes[i].batches) = Len(pushes[i].cycle)
          /\ EntriesOf(pushes[i].batches) = Range(pushes[i].cycle)
    /\ Terminated => cycle = << >>

\* The batcher has terminated after a size-triggered Push and a Push made
\* at shutdown.
C28_Witness ==
    /\ Terminated
    /\ \E i, j \in 1..Len(pushes) :
          /\ pushes[i].from = "size"
          /\ pushes[j].from \in {"ctx", "closed"}

\* C29 (no empty Push).  Every Push call carries at least one batch and
\* every batch at least one entry; a timer expiry taken with a running
\* total of zero only rearms the timer; and with nothing accumulated, a
\* step that takes no entry from the channel, the return of Run at
\* shutdown or channel closure included, makes no Push.
C29_NoEmptyPush ==
    /\ [](\A i \in 1..Len(pushes) :
             /\ DOMAIN pushes[i].batches # {}
             /\ \A k \in DOMAIN pushes[i].batches :
                   pushes[i].batches[k].Entries # << >>)
    /\ [][ (bpc = "select" /\ totalEntries = 0 /\ dequeued' = dequeued) =>
              /\ pushes' = pushes
              /\ bpc' \in {"select", "done"}
              /\ (timer.tick /\ ~timer'.tick /\ bpc' = "select") =>
                    /\ timer' = Reset(Drain(timer), FlushTimeout)
                    /\ batches' = batches
                    /\ totalEntries' = totalEntries ]_vars

\* The batcher has terminated at shutdown with nothing accumulated and
\* without a single Push.
C29_Witness ==
    Terminated /\ pushes = << >> /\ dequeued = << >> /\ batches = EmptyBatches

\* The step leaves the timer armed for a full interval, and it was not so
\* before.
Restarted ==
    /\ timer'.armed /\ timer'.left = FlushTimeout
    /\ ~(timer.armed /\ timer.left = FlushTimeout)

\* The step dequeues an entry.
Dequeues == dequeued' # dequeued

\* C30 as stated: the timer is restarted only by the dequeue of an entry
\* while the running total is 0.
C30_RestartOnlyOnFirstEntry ==
    [][ Restarted => (Dequeues /\ totalEntries = 0) ]_vars

\* C30 (one timer, restarted at the first entry).  The dequeue of an entry
\* while the running total is 0 restarts the timer for a full interval; the
\* dequeue of an entry while the total is nonzero leaves the timer alone,
\* whatever its label set; besides the first entry, only the timer case
\* rearms the timer: after an idle expiry and after a timer flush; and a
\* timer flush happens a full interval after the first entry of its
\* accumulation.
C30_TimerRestart ==
    /\ [][ /\ (Dequeues /\ totalEntries = 0) =>
                 timer' = [armed |-> TRUE, left |-> FlushTimeout,
                           tick |-> FALSE]
           /\ (Dequeues /\ totalEntries > 0) => timer' = timer
           /\ Restarted =>
                 \/ Dequeues /\ totalEntries = 0
                 \/ bpc = "select" /\ timer.tick /\ totalEntries = 0
                 \/ bpc = "pushing" /\ flushFrom = "timer" ]_vars
    /\ [](\A i \in 1..Len(pushes) :
             pushes[i].from = "timer" => pushes[i].elapsed = FlushTimeout)

\* A timer flush has pushed an accumulation whose entries belong to two
\* label sets, the second entry having arrived after time had passed.
C30_Witness ==
    \E i \in 1..Len(pushes) :
       /\ pushes[i].from = "timer"
       /\ Len(pushes[i].cycle) >= 2
       /\ pushes[i].cycle[1].Labels # pushes[i].cycle[Len(pushes[i].cycle)].Labels

C32_AppendTouchesOneBatch ==
    [][ IF Dequeues
          THEN LET entry == Head(entryChan)
                   key == computeLabelKey(entry.Labels)
               IN  /\ DOMAIN batches' = DOMAIN batches \cup {key}
                   /\ \A k \in DOMAIN batches \ {key} :
                         batches'[k] = batches[k]
                   /\ batches'[key] =
                         IF key \in DOMAIN batches
                           THEN [Labels |-> batches[key].Labels,
                                 Entries |-> Append(batches[key].Entries,
                                                    entry)]
                           ELSE [Labels |-> entry.Labels,
                                 Entries |-> << entry >>]
          ELSE batches' = batches \/ batches' = EmptyBatches ]_vars

\* The map holds the batches of two label keys, one of them with two
\* entries.
C32_Witness ==
    /\ bpc = "select"
    /\ \E j, k \in DOMAIN batches :
          j # k /\ Len(batches[j].Entries) >= 2 /\ Len(batches[k].Entries) >= 1

\* The sum of the numbers of values of the streams.
RECURSIVE ValuesIn(_)
ValuesIn(streams) ==
    IF streams = << >> THEN 0
    ELSE Len(Head(streams).Values) + ValuesIn(Tail(streams))

\* The request built for these batches, its streams in this order, is the
\* one C33 describes.
IsPushRequestOf(req, b) ==
    LET nonEmpty == { k \in DOMAIN b : b[k].Entries # << >> }
    IN  /\ Len(req.Streams) = Cardinality(nonEmpty)
        /\ \A k \in nonEmpty :
              \E n \in 1..Len(req.Streams) :
                 /\ req.Streams[n].Stream = b[k].Labels
                 /\ Len(req.Streams[n].Values) = Len(b[k].Entries)
                 /\ \A i \in 1..Len(b[k].Entries) :
                       LET value == req.Streams[n].Values[i]
                       IN  /\ Len(value) = 2
                           /\ \A c \in Range(value[1]) : IsDigit(c)
                           /\ ScanDigits(value[1], 0) =
                                 b[k].Entries[i].Timestamp
                           /\ value[2] = b[k].Entries[i].Line
        /\ ValuesIn(req.Streams) = TotalOf(b)

\* C33 (push request).  For the batches of every Push call, and whatever
\* the order in which the map is ranged over, buildPushRequest gives one
\* stream per batch, with the batch's Labels and, in batch order, the pairs
\* of the decimal timestamp and the line of its entries; the request holds
\* as many values as entries were flushed.
C33_PushRequest ==
    \A p \in 1..Len(pushes) :
       \A order \in MapOrders(DOMAIN pushes[p].batches) :
          /\ IsPushRequestOf(buildPushRequest(pushes[p].batches, order),
                             pushes[p].batches)
          /\ ValuesIn(buildPushRequest(pushes[p].batches, order).Streams)
                = Len(pushes[p].cycle)

\* A Push has been called with the batches of two label sets, one of them
\* with two entries of different timestamps.
C33_Witness ==
    \E p \in 1..Len(pushes) :
       /\ Cardinality(DOMAIN pushes[p].batches) = 2
       /\ \E k \in DOMAIN pushes[p].batches :
             LET entries == pushes[p].batches[k].Entries
             IN  Len(entries) = 2 /\ entries[1].Timestamp # entries[2].Timestamp

\* C34 (positive threshold and interval).  Whenever LoadConfig has accepted
\* the command line and the environment and main goes on to start the
\* batcher, BatchSize and BatchFlush are at least 1.
C34_PositiveBatchConfig ==
    mpc = "serving" =>
        /\ env.cfg.BatchSize >= 1 /\ env.cfg.BatchFlush >= 1
        /\ env.batchSize >= 1

\* C35 (a parse error is local to its line).  The scan of a line that fails
\* to parse counts the line and the error and leaves the handler in its
\* loop, the response unwritten and the channel as it was; after such an
\* error the scan of any valid line still yields its entry and goes on to
\* the send; and the entries reach the channel in the order of the body.
C35_ParseErrorIsLocal ==
    /\ [][ \A h \in Handlers :
              (hpc[h] = "scan" /\ errorCount'[h] # errorCount[h]) =>
                 /\ scanned' = scanned + 1
                 /\ hpc'[h] = "scan"
                 /\ status' = status
                 /\ lineCount'[h] = lineCount[h] + 1
                 /\ errorCount'[h] = errorCount[h] + 1
                 /\ entryChan' = entryChan /\ enqueued' = enqueued ]_vars
    /\ [](\A h \in Handlers :
             (hpc[h] = "scan" /\ errorCount[h] > 0 /\ scanned < MaxLines
                /\ mpc # "done") =>
                \A line \in env.lines :
                   parseLogLine(scanned + 1, line).err = "none" =>
                      ENABLED ( /\ HandlerScan(h)
                                /\ hpc'[h] = "send"
                                /\ pending'[h] =
                                     parseLogLine(scanned + 1, line).entry ))
    /\ [](\A i, j \in 1..Len(enqueued) :
             i < j => enqueued[i].No < enqueued[j].No)

\* The first line of a body failed to parse and the second, a valid one,
\* has been enqueued.
C35_Witness ==
    /\ scanned = 2 /\ lineCount[1] = 2 /\ errorCount[1] = 1
    /\ Len(enqueued) = 1 /\ enqueued[1].No = 2

\* C36 (loop invariant).  Whenever the batcher waits in its select, with a
\* threshold of at least 1: the running total is the sum of the lengths of
\* the batches of the map, it is at least 0 and below the threshold, the
\* map is empty exactly when the total is 0, and no batch is empty.
C36_LoopInvariant ==
    (bpc = "select" /\ env.batchSize >= 1) =>
        /\ totalEntries = TotalOf(batches)
        /\ 0 <= totalEntries /\ totalEntries < env.batchSize
        /\ (DOMAIN batches = {}) <=> (totalEntries = 0)
        /\ \A k \in DOMAIN batches : batches[k].Entries # << >>

\* The batcher waits in its select with an entry accumulated after a flush
\* at the size threshold.
C36_Witness ==
    /\ bpc = "select" /\ totalEntries > 0
    /\ \E i \in 1..Len(pushes) : pushes[i].from = "size"

\* C37 (single flusher).  A Push starts only when none is in flight.  While
\* one is in flight the batcher dequeues nothing, starts no other Push,
\* leaves its map and counter alone and takes no value from the timer's
\* channel, and its next step is the return of that Push; the entry channel
\* changes only by a handler's send, which appends the entry while the
\* channel holds less than its capacity and drops and counts it otherwise.
C37_SingleFlusher ==
    /\ [][ pushes' # pushes =>
              (bpc = "select" /\ bpc' = "pushing"
                 /\ Len(pushes') = Len(pushes) + 1) ]_vars
    /\ [][ bpc = "pushing" =>
              /\ dequeued' = dequeued
              /\ pushes' = pushes
              /\ (timer.tick => timer'.tick)
              /\ bpc' = "pushing" =>
                    /\ batches' = batches /\ totalEntries' = totalEntries
                    /\ flushFrom' = flushFrom
              /\ bpc' # "pushing" =>
                    /\ flushFrom' = "none"
                    /\ bpc' = IF flushFrom \in {"size", "timer"}
                                THEN "select" ELSE "done"
              /\ \/ entryChan' = entryChan
                 \/ /\ Len(entryChan) < env.chanCap
                    /\ \E h \in Handlers :
                          /\ hpc[h] = "send"
                          /\ entryChan' = Append(entryChan, pending[h])
              /\ \A h \in Handlers :
                    (hpc[h] = "send" /\ hpc'[h] = "scan"
                       /\ Len(entryChan) = env.chanCap) =>
                       /\ entryChan' = entryChan
                       /\ errorCount'[h] = errorCount[h] + 1 ]_vars

\* A Push is in flight, the channel is full, and the third line of the body
\* has been dropped after the first was dequeued and the second enqueued.
C37_Witness ==
    /\ bpc = "pushing" /\ Len(entryChan) = env.chanCap
    /\ Len(dequeued) = 1 /\ Len(enqueued) = 2
    /\ scanned = 3 /\ errorCount[1] = 1 /\ hpc[1] = "scan"

\* C38 (accumulated entries have a timer).  Whenever the batcher waits in
\* its select with a running total above 0, the flush timer is pending or
\* has expired with its value still in flushTimer.C.
C38_TimerArmedWhileAccumulating ==
    (bpc = "select" /\ totalEntries > 0) => (timer.armed \/ timer.tick)

\* After a first Push, the batcher waits in its select with an entry
\* accumulated and the expired timer's value not yet taken.
C38_Witness ==
    /\ bpc = "select" /\ totalEntries > 0
    /\ timer.tick /\ ~timer.armed /\ pushes # << >>

\* The step in which the select takes the closure of the channel (with the
\* context cancelled and nothing accumulated the ctx.Done() case makes the
\* same step).
ClosedExit ==
    /\ bpc = "select" /\ closed
    /\ \/ flushFrom' = "closed"
       \/ bpc' = "done" /\ entryChan = << >>

\* C39 (the closure path drains everything).  When the select takes the
\* closure of the channel, every entry ever enqueued has been dequeued, and
\* all of them are in the Push calls made so far and the accumulation this
\* step hands to Push; when Run has returned after that Push, the Push calls
\* hold, in order, exactly the entries that were enqueued.
C39_ClosurePathDrains ==
    /\ [][ ClosedExit =>
              /\ entryChan = << >>
              /\ dequeued = enqueued
              /\ PushedCycles(Len(pushes)) \o cycle = enqueued
              /\ cycle # << >> =>
                    /\ Len(pushes') = Len(pushes) + 1
                    /\ pushes'[Len(pushes')].cycle = cycle
                    /\ pushes'[Len(pushes')].batches = batches ]_vars
    /\ []((Terminated /\ pushes # << >>
             /\ pushes[Len(pushes)].from = "closed") =>
             /\ entryChan = << >>
             /\ PushedCycles(Len(pushes)) = enqueued)

\* Run has returned through the closure branch before the cancel, after a
\* Push of what it held; entries had been dequeued before and after the
\* close.
C39_Witness ==
    /\ Terminated /\ ~ctxDone /\ Len(enqueued) >= 2
    /\ pushes # << >> /\ pushes[Len(pushes)].from = "closed"

\* C40 (no rollback on a read error).  The step in which an admitted request
\* is answered 400 for a body that cannot be read ends the handler and
\* leaves the channel, the entries enqueued and the batcher as they were;
\* and once it is answered, unless a shutdown cancels the context, every
\* entry the request enqueued is dequeued and handed to Push.
C40_NoRollbackOnReadError ==
    /\ [][ \A h \in Handlers :
              (hpc[h] = "scan" /\ status'[h] = 400) =>
                 /\ hpc'[h] = "done"
                 /\ entryChan' = entryChan /\ enqueued' = enqueued
                 /\ dequeued' = dequeued /\ batches' = batches
                 /\ totalEntries' = totalEntries /\ pushes' = pushes
                 /\ lineCount' = lineCount /\ errorCount' = errorCount ]_vars
    /\ \A h \in Handlers :
          (hpc[h] = "done" /\ status[h] = 400) ~>
             \/ ctxDone
             \/ /\ dequeued = enqueued
                /\ PushedCycles(Len(pushes)) = enqueued

\* A request whose body could not be read to its end was answered 400 after
\* two of its lines were enqueued, and both entries have been pushed, with
\* no shutdown under way.
C40_Witness ==
    /\ hpc[1] = "done" /\ status[1] = 400 /\ mpc = "serving"
    /\ Len(enqueued) = 2 /\ PushedCycles(Len(pushes)) = enqueued

====
